---- MODULE Spec2Model ----
(***************************************************************************)
(* PulsePoint feedback worker: the FeedbackAnalysisWorkflow (categorize,   *)
(* sentiment, persist under the durable step engine) and the fetch handler *)
(* (ingest endpoint, dashboard endpoint) of src/src/index.ts, over the     *)
(* feedback table of src/migrations/0001_create_feedback.sql.              *)
(*                                                                         *)
(* Strings that the code inspects character by character (classifier       *)
(* responses, category labels) are sequences of one-character strings.     *)
(* Sentiment scores are integers in hundredths: 0.3 is 30, 1 is 100.       *)
(***************************************************************************)
EXTENDS Integers, Sequences, FiniteSets, TLC

VARIABLES runs, feedback, lastId, response, probe

vars == <<runs, feedback, lastId, response, probe>>

(***************************************************************************)
(* Bounds of the model.                                                    *)
(***************************************************************************)
\* workflow instances created in one behaviour
MaxRuns == 2
\* attempts the step engine gives one step before the instance is errored
MaxAttempts == 2

(***************************************************************************)
(* Strings as character sequences.                                         *)
(***************************************************************************)
Bugs == <<"B", "u", "g", "s">>
FeatureRequests ==
    <<"F", "e", "a", "t", "u", "r", "e", " ", "R", "e", "q", "u", "e", "s", "t", "s">>
Billing == <<"B", "i", "l", "l", "i", "n", "g">>

\* const valid = ["Bugs", "Feature Requests", "Billing"]
valid == <<Bugs, FeatureRequests, Billing>>

\* Array.prototype.includes
includes(arr, x) == \E i \in DOMAIN arr : arr[i] = x

\* the characters String.prototype.trim removes that the model's inputs use
WhiteSpace == {" ", "\n", "\t"}

RECURSIVE trimStart(_)
trimStart(s) ==
    IF s # <<>> /\ Head(s) \in WhiteSpace THEN trimStart(Tail(s)) ELSE s

RECURSIVE trimEnd(_)
trimEnd(s) ==
    IF s # <<>> /\ s[Len(s)] \in WhiteSpace
    THEN trimEnd(SubSeq(s, 1, Len(s) - 1))
    ELSE s

\* String.prototype.trim
trim(s) == trimEnd(trimStart(s))

(***************************************************************************)
(* Step "categorize": the callback's computation on the model's answer.    *)
(* res is [has |-> the answer has a response field, response |-> its text] *)
(***************************************************************************)
\* (res as { response?: string }).response?.trim() ?? "Bugs"
raw(res) == IF res.has THEN trim(res.response) ELSE Bugs

categorizeUnchecked(res) == raw(res)

categorizeNoTrim(res) ==
    LET r == IF res.has THEN res.response ELSE Bugs
    IN  IF includes(valid, r) THEN r ELSE Bugs

\* return valid.includes(raw) ? raw : "Bugs"
categorize(res) == IF includes(valid, raw(res)) THEN raw(res) ELSE Bugs

(***************************************************************************)
(* Step "sentiment": the callback's computation on the model's answer.     *)
(* res is [isArray |-> Array.isArray(res), items |-> the {label, score}    *)
(* pairs: res itself when it is an array, res.result when it is a wrapper] *)
(***************************************************************************)
\* Array.isArray(res) ? res : []
scores(res) == IF res.isArray THEN res.items ELSE <<>>

\* the neutral default of line 45
NeutralSentiment == 50

\* scores.find((r) => r.label === "POSITIVE"): index of the first match, 0 if none
find(arr, label) ==
    IF \E i \in DOMAIN arr : arr[i].label = label
    THEN CHOOSE i \in DOMAIN arr :
            /\ arr[i].label = label
            /\ \A j \in 1..(i - 1) : arr[j].label # label
    ELSE 0

\* return positive ? positive.score : 0.5
sentiment(res) ==
    LET positive == find(scores(res), "POSITIVE")
    IN  IF positive # 0 THEN scores(res)[positive].score ELSE NeutralSentiment

(***************************************************************************)
(* Dashboard row priority (lines 91-100), on a row's category and          *)
(* sentiment.                                                               *)
(***************************************************************************)
CriticalCut == 40
MediumCut == 30

isCritical(r) ==
    (r.category = Bugs \/ r.category = Billing) /\ r.sentiment < CriticalCut

isHigh(r) == ~isCritical(r) /\ (r.category = Bugs \/ r.category = Billing)

isMedium(r) == r.category = FeatureRequests /\ r.sentiment < MediumCut

priorityOneCut(r) ==
    IF (r.category = Bugs \/ r.category = Billing) /\ r.sentiment < MediumCut
    THEN "CRITICAL"
    ELSE IF r.category = Bugs \/ r.category = Billing THEN "HIGH"
    ELSE IF isMedium(r) THEN "MEDIUM"
    ELSE "LOW"

priorityNewestFirst(r) ==
    IF r.id = lastId THEN "CRITICAL"
    ELSE IF isCritical(r) THEN "CRITICAL"
    ELSE IF isHigh(r) THEN "HIGH"
    ELSE IF isMedium(r) THEN "MEDIUM"
    ELSE "LOW"

priority(r) ==
    IF isCritical(r) THEN "CRITICAL"
    ELSE IF isHigh(r) THEN "HIGH"
    ELSE IF isMedium(r) THEN "MEDIUM"
    ELSE "LOW"

(***************************************************************************)
(* Inputs.                                                                 *)
(***************************************************************************)
\* feedback texts that clients submit
Texts == {"App crashes on login", "Love the new export"}

Str(s) == [has |-> TRUE, response |-> s]

NoResponseField == [has |-> FALSE, response |-> <<>>]

\* answers of @cf/meta/llama-3-8b-instruct the workflow instances receive
ClassifierAnswers ==
    { Str(Bugs), Str(<<" ">> \o Billing \o <<"\n">>), Str(FeatureRequests),
      Str(<<"B", "u", "g">>), Str(<<>>), NoResponseField }

Entry(l, s) == [label |-> l, score |-> s]

Bare(items) == [isArray |-> TRUE, items |-> items]

Wrapped(items) == [isArray |-> FALSE, items |-> items]

\* answers of @cf/huggingface/distilbert-sst-2-int8 the workflow instances receive
SentimentAnswers ==
    { Bare(<<Entry("POSITIVE", 80)>>),
      Bare(<<Entry("NEGATIVE", 90)>>),
      Bare(<<Entry("NEGATIVE", 90), Entry("POSITIVE", 10)>>),
      Bare(<<>>),
      Wrapped(<<Entry("POSITIVE", 80)>>) }

(***************************************************************************)
(* JSON request bodies.  A value is [t |-> typeof-like tag, s |-> its      *)
(* string, n |-> its number]; a body is [parseable, type, hasText, text].  *)
(***************************************************************************)
V(t, s, n) == [t |-> t, s |-> s, n |-> n]

undefined == V("undefined", "", 0)

TextValues ==
    { V("string", x, 0) : x \in Texts \cup {""} }
        \cup { V("number", "", 0), V("number", "", 7), V("boolean", "", 1),
               V("null", "", 0), V("object", "", 0) }

Body(p, ty, h, v) == [parseable |-> p, type |-> ty, hasText |-> h, text |-> v]

\* an empty or otherwise unparseable body
NoBody == Body(FALSE, "none", FALSE, undefined)

Bodies ==
    { NoBody }
        \cup { Body(TRUE, ty, FALSE, undefined) :
                 ty \in {"null", "number", "string", "boolean", "array", "object"} }
        \cup { Body(TRUE, "object", TRUE, v) : v \in TextValues }

Request(m, p, b) == [method |-> m, pathname |-> p, body |-> b]

Requests ==
    { Request("POST", "/api/feedback", b) : b \in Bodies }
        \cup { Request("GET", "/", NoBody), Request("POST", "/", NoBody),
               Request("GET", "/api/feedback", NoBody),
               Request("GET", "/favicon.ico", NoBody) }

\* JavaScript truthiness of a value
truthy(v) ==
    CASE v.t = "string" -> v.s # ""
      [] v.t = "number" -> v.n # 0
      [] v.t = "boolean" -> v.n # 0
      [] v.t = "object" -> TRUE
      [] v.t = "array" -> TRUE
      [] OTHER -> FALSE

\* body.text throws a TypeError when body is null
textThrows(body) == body.type = "null"

\* body.text
bodyText(body) ==
    IF body.type = "object" /\ body.hasText THEN body.text ELSE undefined

(***************************************************************************)
(* State.                                                                  *)
(*   runs      the workflow instances, in creation order.  An instance is  *)
(*             text       event.payload.text                               *)
(*             status     "running", "complete" or "errored"               *)
(*             done       the steps whose result the engine has cached     *)
(*             category   the cached result of "categorize" (<<>>: none)   *)
(*             sentiment  the cached result of "sentiment" (0 - 1: none)   *)
(*             attempts   failed attempts of the step it is at (of         *)
(*                        "persist" once it is complete)                   *)
(*             succeeded  history: the steps whose callback has returned   *)
(*             rows       history: ids of the rows its INSERTs created     *)
(*   feedback  the rows of the feedback table, in insertion order          *)
(*   lastId    the table's AUTOINCREMENT counter                           *)
(*   response  the latest Response of fetch                                *)
(*   probe     one application of a step callback or of the row priority   *)
(*             to a given input (used by SpecFn only)                      *)
(***************************************************************************)
NoCategory == <<>>

NoSentiment == 0 - 1

NoResponse ==
    [status |-> 0, body |-> "none", total |-> 0, urgent |-> 0, bugs |-> 0,
     rows |-> <<>>]

Idle ==
    [fn |-> "none", cres |-> NoResponseField, sres |-> Bare(<<>>),
     row |-> [category |-> Bugs, sentiment |-> 0],
     category |-> NoCategory, sentiment |-> NoSentiment, priority |-> "none",
     done |-> FALSE]

Init ==
    /\ runs = <<>>
    /\ feedback = <<>>
    /\ lastId = 0
    /\ response = NoResponse
    /\ probe = Idle

stepAtUnordered(run) ==
    IF "sentiment" \notin run.done THEN "sentiment"
    ELSE IF "categorize" \notin run.done THEN "categorize"
    ELSE "persist"

\* the step run() is at when replayed: the first whose result is not cached
stepAt(run) ==
    IF "categorize" \notin run.done THEN "categorize"
    ELSE IF "sentiment" \notin run.done THEN "sentiment"
    ELSE "persist"

atStep(i, name) ==
    /\ i \in DOMAIN runs
    /\ runs[i].status = "running"
    /\ stepAt(runs[i]) = name

\* step.do resolves: the engine caches the result against the instance
resolved(run, name) ==
    [run EXCEPT !.done = @ \cup {name}, !.succeeded = @ \cup {name},
                !.attempts = 0]

rejectedForgetful(run) ==
    IF run.attempts + 1 >= MaxAttempts
    THEN [run EXCEPT !.attempts = MaxAttempts, !.status = "errored"]
    ELSE [run EXCEPT !.attempts = @ + 1, !.done = {},
                     !.category = NoCategory, !.sentiment = NoSentiment]

rejectedSwallowed(run) ==
    IF run.attempts + 1 >= MaxAttempts
    THEN [run EXCEPT !.attempts = 0, !.done = @ \cup {stepAt(run)}]
    ELSE [run EXCEPT !.attempts = @ + 1]

rejectedNoLimit(run) ==
    [run EXCEPT !.attempts = IF @ + 1 >= MaxAttempts THEN 0 ELSE @ + 1]

\* the step's callback throws: the engine retries it, and when the attempts
\* are used up step.do throws, run() throws and the instance is errored
rejected(run) ==
    IF run.attempts + 1 >= MaxAttempts
    THEN [run EXCEPT !.attempts = MaxAttempts, !.status = "errored"]
    ELSE [run EXCEPT !.attempts = @ + 1]

(***************************************************************************)
(* FeedbackAnalysisWorkflow.run: one action per outcome of a step attempt. *)
(***************************************************************************)
\* "categorize" resolves with the normalised answer of the classifier
CategorizeOk(i, res) ==
    /\ atStep(i, "categorize")
    /\ runs' = [runs EXCEPT
                  ![i] = [resolved(@, "categorize") EXCEPT
                            !.category = categorize(res)]]
    /\ UNCHANGED <<feedback, lastId, response, probe>>

\* env.AI.run throws in "categorize"
CategorizeFail(i) ==
    /\ atStep(i, "categorize")
    /\ runs' = [runs EXCEPT ![i] = rejected(@)]
    /\ UNCHANGED <<feedback, lastId, response, probe>>

\* "sentiment" resolves with the score derived from the backend's answer
SentimentOk(i, res) ==
    /\ atStep(i, "sentiment")
    /\ runs' = [runs EXCEPT
                  ![i] = [resolved(@, "sentiment") EXCEPT
                            !.sentiment = sentiment(res)]]
    /\ UNCHANGED <<feedback, lastId, response, probe>>

SentimentFailShared(i) ==
    /\ atStep(i, "sentiment")
    /\ runs' = [j \in DOMAIN runs |->
                  IF runs[j].status = "running" THEN rejected(runs[j]) ELSE runs[j]]
    /\ UNCHANGED <<feedback, lastId, response, probe>>

\* env.AI.run throws in "sentiment"
SentimentFail(i) ==
    /\ atStep(i, "sentiment")
    /\ runs' = [runs EXCEPT ![i] = rejected(@)]
    /\ UNCHANGED <<feedback, lastId, response, probe>>

\* INSERT INTO feedback (raw_text, category, sentiment) VALUES (?, ?, ?):
\* the table after the statement, the id coming from AUTOINCREMENT
insert(table, id, t, c, s) ==
    Append(table, [id |-> id, raw_text |-> t, category |-> c, sentiment |-> s])

PersistOkReplace(i) ==
    /\ atStep(i, "persist")
    /\ lastId' = lastId + 1
    /\ feedback' =
         insert(IF feedback = <<>> THEN feedback
                ELSE SubSeq(feedback, 1, Len(feedback) - 1),
                lastId + 1, runs[i].text, runs[i].category, runs[i].sentiment)
    /\ runs' = [runs EXCEPT
                  ![i] = [resolved(@, "persist") EXCEPT
                            !.rows = @ \cup {lastId + 1},
                            !.attempts = runs[i].attempts,
                            !.status = "complete"]]
    /\ UNCHANGED <<response, probe>>

PersistOkShared(i) ==
    /\ atStep(i, "persist")
    /\ lastId' = lastId + 1
    /\ feedback' = insert(feedback, lastId + 1, runs[Len(runs)].text,
                          runs[Len(runs)].category, runs[i].sentiment)
    /\ runs' = [runs EXCEPT
                  ![i] = [resolved(@, "persist") EXCEPT
                            !.rows = @ \cup {lastId + 1},
                            !.attempts = runs[i].attempts,
                            !.status = "complete"]]
    /\ UNCHANGED <<response, probe>>

\* "persist" resolves: the row is inserted, run() returns, the instance is
\* complete
PersistOk(i) ==
    /\ atStep(i, "persist")
    /\ lastId' = lastId + 1
    /\ feedback' = insert(feedback, lastId + 1, runs[i].text, runs[i].category,
                          runs[i].sentiment)
    /\ runs' = [runs EXCEPT
                  ![i] = [resolved(@, "persist") EXCEPT
                            !.rows = @ \cup {lastId + 1},
                            !.attempts = runs[i].attempts,
                            !.status = "complete"]]
    /\ UNCHANGED <<response, probe>>

PersistFailAfterInsert(i) ==
    /\ atStep(i, "persist")
    /\ lastId' = lastId + 1
    /\ feedback' = insert(feedback, lastId + 1, runs[i].text, runs[i].category,
                          runs[i].sentiment)
    /\ runs' = [runs EXCEPT ![i] = [rejected(@) EXCEPT !.rows = @ \cup {lastId + 1}]]
    /\ UNCHANGED <<response, probe>>

\* the statement is rejected in "persist": no row is written
PersistFail(i) ==
    /\ atStep(i, "persist")
    /\ runs' = [runs EXCEPT ![i] = rejected(@)]
    /\ UNCHANGED <<feedback, lastId, response, probe>>

(***************************************************************************)
(* fetch.                                                                  *)
(***************************************************************************)
Json(status, body) == [NoResponse EXCEPT !.status = status, !.body = body]

createAnalysed(t) ==
    Append(runs, [text |-> t, status |-> "running", done |-> {"categorize"},
                  category |-> Bugs, sentiment |-> NoSentiment,
                  attempts |-> 0, succeeded |-> {"categorize"}, rows |-> {}])

\* env.WORKFLOW.create({ params: { text: body.text } })
create(t) ==
    Append(runs, [text |-> t, status |-> "running", done |-> {},
                  category |-> NoCategory, sentiment |-> NoSentiment,
                  attempts |-> 0, succeeded |-> {}, rows |-> {}])

\* !body.text || typeof body.text !== "string"
missingText(body) ==
    ~truthy(bodyText(body)) \/ bodyText(body).t # "string"

\* ORDER BY id DESC LIMIT 50
Limit == 50

RECURSIVE reverse(_)
reverse(s) == IF s = <<>> THEN <<>> ELSE Append(reverse(Tail(s)), Head(s))

results ==
    SubSeq(reverse(feedback), 1,
           IF Len(feedback) < Limit THEN Len(feedback) ELSE Limit)

\* the cut of the Critical Incidents counter, line 86
UrgentCut == 30

total == Len(results)

urgentByTier == Cardinality({k \in DOMAIN results : isCritical(results[k])})

urgent == Cardinality({k \in DOMAIN results : results[k].sentiment < UrgentCut})

bugs == Cardinality({k \in DOMAIN results : results[k].category = Bugs})

\* per row, what the table shows of it: id and priority
rows ==
    [k \in DOMAIN results |->
       [id |-> results[k].id, priority |-> priority(results[k])]]

\* the page: the three counters and the rows
page ==
    [status |-> 200, body |-> "html", total |-> total, urgent |-> urgent,
     bugs |-> bugs, rows |-> rows]

ingestCreateFirst(request) ==
    IF ~request.body.parseable
    THEN /\ response' = Json(400, "Invalid JSON")
         /\ UNCHANGED <<runs, feedback, lastId, probe>>
    ELSE IF textThrows(request.body)
    THEN /\ response' = Json(500, "exception")
         /\ UNCHANGED <<runs, feedback, lastId, probe>>
    ELSE /\ Len(runs) < MaxRuns
         /\ runs' = create(bodyText(request.body).s)
         /\ response' = IF missingText(request.body)
                        THEN Json(400, "Missing 'text' field")
                        ELSE Json(202, "accepted")
         /\ UNCHANGED <<feedback, lastId, probe>>

\* the ingest endpoint, lines 65-77
ingest(request) ==
    IF ~request.body.parseable
    THEN /\ response' = Json(400, "Invalid JSON")
         /\ UNCHANGED <<runs, feedback, lastId, probe>>
    ELSE IF textThrows(request.body)
    THEN \* the TypeError leaves fetch: the runtime answers with its error page
         /\ response' = Json(500, "exception")
         /\ UNCHANGED <<runs, feedback, lastId, probe>>
    ELSE IF missingText(request.body)
    THEN /\ response' = Json(400, "Missing 'text' field")
         /\ UNCHANGED <<runs, feedback, lastId, probe>>
    ELSE /\ Len(runs) < MaxRuns
         /\ runs' = create(bodyText(request.body).s)
         /\ response' = Json(202, "accepted")
         /\ UNCHANGED <<feedback, lastId, probe>>

fetchWriteBack(request) ==
    IF request.pathname = "/api/feedback" /\ request.method = "POST"
    THEN ingest(request)
    ELSE IF request.pathname = "/" /\ request.method = "GET"
    THEN /\ response' = page
         /\ feedback' = [k \in DOMAIN feedback |->
                           [feedback[k] EXCEPT !.raw_text = priority(feedback[k])]]
         /\ UNCHANGED <<runs, lastId, probe>>
    ELSE /\ response' = Json(404, "Not found")
         /\ UNCHANGED <<runs, feedback, lastId, probe>>

fetch(request) ==
    IF request.pathname = "/api/feedback" /\ request.method = "POST"
    THEN ingest(request)
    ELSE IF request.pathname = "/" /\ request.method = "GET"
    THEN /\ response' = page
         /\ UNCHANGED <<runs, feedback, lastId, probe>>
    ELSE /\ response' = Json(404, "Not found")
         /\ UNCHANGED <<runs, feedback, lastId, probe>>

(***************************************************************************)
(* One step of the program: a request served by fetch, or one attempt of   *)
(* the step some workflow instance is at.  requests, classifier and        *)
(* backend are the requests that arrive and the answers the two models     *)
(* give.                                                                   *)
(***************************************************************************)
Step(requests, classifier, backend) ==
    \/ \E request \in requests : fetch(request)
    \/ \E i \in 1..MaxRuns, res \in classifier : CategorizeOk(i, res)
    \/ \E i \in 1..MaxRuns : CategorizeFail(i)
    \/ \E i \in 1..MaxRuns, res \in backend : SentimentOk(i, res)
    \/ \E i \in 1..MaxRuns : SentimentFail(i)
    \/ \E i \in 1..MaxRuns : PersistOk(i)
    \/ \E i \in 1..MaxRuns : PersistFail(i)

\* the whole program on all the inputs of the model
Next == Step(Requests, ClassifierAnswers, SentimentAnswers)

Spec == Init /\ [][Next]_vars

\* the gateway: every request, the workflow instances getting one answer each
NextGateway ==
    Step(Requests, {Str(Bugs)}, {Bare(<<Entry("POSITIVE", 80)>>)})

SpecGateway == Init /\ [][NextGateway]_vars

\* the pipeline: submissions of one text, every answer of the two models
Submit(t) == Request("POST", "/api/feedback", Body(TRUE, "object", TRUE, V("string", t, 0)))

NextRun ==
    Step({Submit("App crashes on login")}, ClassifierAnswers, SentimentAnswers)

SpecRun == Init /\ [][NextRun]_vars

\* the scenario of the end-to-end test: one text, one answer of each model
NextE2E ==
    Step({Submit("App crashes on login"), Request("GET", "/", NoBody)},
         {Str(Bugs)}, {Bare(<<Entry("NEGATIVE", 90)>>)})

SpecE2E == Init /\ [][NextE2E]_vars

(***************************************************************************)
(* The step callbacks and the row priority as functions: SpecFn applies    *)
(* each of them once to an input drawn from the sets below.                *)
(***************************************************************************)
Pads == {<<>>, <<" ">>, <<"\n">>, <<"\t", " ">>}

Cores ==
    { Bugs, FeatureRequests, Billing, <<>>,
      <<"F", "e", "a", "t", "u", "r", "e", "R", "e", "q", "u", "e", "s", "t", "s">>,
      <<"b", "u", "g", "s">>, <<"B", "u", "g", "s", ".">>,
      <<"B", "i", "l", " ", "l", "i", "n", "g">> }

ProbeClassifierAnswers ==
    { Str(a \o c \o b) : a \in Pads, c \in Cores, b \in Pads } \cup {NoResponseField}

ProbeEntries ==
    { Entry(l, x) : l \in {"POSITIVE", "NEGATIVE", "NEUTRAL"}, x \in {0, 10, 35, 90, 100} }

ProbeItems ==
    {<<>>} \cup { <<e>> : e \in ProbeEntries }
           \cup { <<e, f>> : e \in ProbeEntries, f \in ProbeEntries }

ProbeSentimentAnswers ==
    { Bare(items) : items \in ProbeItems } \cup { Wrapped(items) : items \in ProbeItems }

ProbeRows ==
    { [category |-> c, sentiment |-> x] :
        c \in {Bugs, FeatureRequests, Billing}, x \in 0..100 }

InitFn ==
    /\ runs = <<>>
    /\ feedback = <<>>
    /\ lastId = 0
    /\ response = NoResponse
    /\ probe \in
         { [Idle EXCEPT !.fn = "categorize", !.cres = res] :
             res \in ProbeClassifierAnswers }
           \cup { [Idle EXCEPT !.fn = "sentiment", !.sres = res] :
                    res \in ProbeSentimentAnswers }
           \cup { [Idle EXCEPT !.fn = "priority", !.row = r] : r \in ProbeRows }

ApplyCategorize ==
    /\ probe.fn = "categorize" /\ ~probe.done
    /\ probe' = [probe EXCEPT !.category = categorize(probe.cres), !.done = TRUE]
    /\ UNCHANGED <<runs, feedback, lastId, response>>

ApplySentiment ==
    /\ probe.fn = "sentiment" /\ ~probe.done
    /\ probe' = [probe EXCEPT !.sentiment = sentiment(probe.sres), !.done = TRUE]
    /\ UNCHANGED <<runs, feedback, lastId, response>>

ApplyPriority ==
    /\ probe.fn = "priority" /\ ~probe.done
    /\ probe' = [probe EXCEPT !.priority = priority(probe.row), !.done = TRUE]
    /\ UNCHANGED <<runs, feedback, lastId, response>>

NextFn == ApplyCategorize \/ ApplySentiment \/ ApplyPriority

SpecFn == InitFn /\ [][NextFn]_vars

(***************************************************************************)
(* Properties.                                                             *)
(***************************************************************************)
\* the closed set of categories; the label of the FeatureRequests variant is
\* the string "Feature Requests"
Category == {Bugs, FeatureRequests, Billing}

\* t is s without its leading and trailing white space
IsTrimOf(t, s) ==
    \E a \in 0..Len(s), b \in 0..Len(s) :
        /\ a <= b + 1
        /\ t = SubSeq(s, a + 1, b)
        /\ \A k \in 1..a : s[k] \in WhiteSpace
        /\ \A k \in (b + 1)..Len(s) : s[k] \in WhiteSpace
        /\ t # <<>> => (t[1] \notin WhiteSpace /\ t[Len(t)] \notin WhiteSpace)

\* C3: the category of the categorize step is a member of the closed set: the
\* trimmed response when that is a member, and Bugs for every other answer
\* (empty string, no response field, any other text).
C3_CategoryNormalised ==
    (probe.fn = "categorize" /\ probe.done) =>
        /\ probe.category \in Category
        /\ \A c \in Category :
             (probe.cres.has /\ IsTrimOf(c, probe.cres.response)) => probe.category = c
        /\ ~(probe.cres.has /\ \E c \in Category : IsTrimOf(c, probe.cres.response))
             => probe.category = Bugs

\* C3 witness: an answer with white space around a label came out as that label
C3_Witness ==
    /\ probe.fn = "categorize" /\ probe.done
    /\ probe.cres.has
    /\ probe.cres.response = <<"\t", " ">> \o Billing \o <<"\n">>
    /\ probe.category = Billing

\* the score the claim C4 asks for, whatever the shape of the answer
SentimentAsSpecified(res) ==
    LET p == find(res.items, "POSITIVE")
        n == find(res.items, "NEGATIVE")
    IN  IF p # 0 THEN res.items[p].score
        ELSE IF n # 0 THEN 100 - res.items[n].score
        ELSE 50

\* C4: the sentiment step returns the POSITIVE entry's score if there is one,
\* otherwise 1 - s for a NEGATIVE entry of score s, otherwise 0.5, for a bare
\* list and for a list nested under a wrapper alike.
C4_SentimentResolution ==
    (probe.fn = "sentiment" /\ probe.done) =>
        probe.sentiment = SentimentAsSpecified(probe.sres)

\* the decision table of C5, first match wins
DecisionTable(r) ==
    CASE r.category \in {Bugs, Billing} /\ r.sentiment < 40 -> "CRITICAL"
      [] r.category \in {Bugs, Billing} /\ r.sentiment >= 40 -> "HIGH"
      [] r.category = FeatureRequests /\ r.sentiment < 30 -> "MEDIUM"
      [] OTHER -> "LOW"

\* C5: the priority of a row with a category of the closed set and a sentiment
\* in [0,1] is the decision table's: CRITICAL/HIGH for Bugs and Billing by the
\* 0.4 cut, MEDIUM/LOW for Feature Requests by the 0.3 cut.
C5_PriorityIsDecisionTable ==
    (probe.fn = "priority" /\ probe.done) =>
        /\ probe.priority = DecisionTable(probe.row)
        /\ probe.row.category \in {Bugs, Billing} => probe.priority \in {"CRITICAL", "HIGH"}

\* C5 witness: Billing at exactly 0.4 is HIGH
C5_Witness ==
    /\ probe.fn = "priority" /\ probe.done
    /\ probe.row = [category |-> Billing, sentiment |-> 40]
    /\ probe.priority = "HIGH"

\* the rows of the table that instance i inserted
rowsOf(i) == {k \in DOMAIN feedback : feedback[k].id \in runs[i].rows}

\* C1: a complete instance has inserted exactly one row, which is in the
\* table, however many attempts of its steps failed before.
C1_PersistExactlyOnce ==
    \A i \in DOMAIN runs :
        runs[i].status = "complete" =>
            /\ Cardinality(runs[i].rows) = 1
            /\ Cardinality(rowsOf(i)) = 1

\* C1 witness: an instance is complete after a failed attempt of persist, next
\* to an instance that used up its attempts
C1_Witness ==
    \E i, j \in DOMAIN runs :
        /\ runs[i].status = "complete" /\ runs[i].attempts > 0
        /\ Cardinality(rowsOf(i)) = 1
        /\ runs[j].status = "errored"

\* an attempt of the named step of instance i is made in this step
Attempted(i, name) ==
    CASE name = "categorize" ->
           (\E res \in ClassifierAnswers : CategorizeOk(i, res)) \/ CategorizeFail(i)
      [] name = "sentiment" ->
           (\E res \in SentimentAnswers : SentimentOk(i, res)) \/ SentimentFail(i)
      [] name = "persist" -> PersistOk(i) \/ PersistFail(i)

\* C2: once a step of an instance has succeeded, no attempt of that step is
\* made again for the instance, and its cached result stays what it was.
C2_NoReexecution ==
    [][\A i \in DOMAIN runs :
         runs'[i] # runs[i] =>
             /\ \A name \in runs[i].succeeded : ~Attempted(i, name)
             /\ "categorize" \in runs[i].succeeded =>
                   runs'[i].category = runs[i].category
             /\ "sentiment" \in runs[i].succeeded =>
                   runs'[i].sentiment = runs[i].sentiment]_vars

\* C2 witness: sentiment has failed once after categorize succeeded
C2_Witness ==
    \E i \in DOMAIN runs :
        /\ runs[i].status = "running"
        /\ runs[i].succeeded = {"categorize"}
        /\ stepAt(runs[i]) = "sentiment"
        /\ runs[i].attempts > 0

C10_FailedRunHasNoRecord ==
    \A i \in DOMAIN runs :
        /\ runs[i].status = "running" => runs[i].attempts < MaxAttempts
        /\ runs[i].status = "errored" =>
              /\ runs[i].attempts = MaxAttempts
              /\ "persist" \notin runs[i].done
              /\ runs[i].rows = {}
              /\ rowsOf(i) = {}
        /\ runs[i].done \subseteq runs[i].succeeded
        /\ Len(feedback) = Cardinality({j \in DOMAIN runs : runs[j].status = "complete"})

\* C10 witness: an instance errored in sentiment with its category cached,
\* while the table holds the row of another instance
C10_Witness ==
    \E i \in DOMAIN runs :
        /\ runs[i].status = "errored"
        /\ runs[i].done = {"categorize"}
        /\ Len(feedback) = 1

\* the response C7 asks for to a POST /api/feedback with the given body
ExpectedIngest(body) ==
    IF ~body.parseable THEN Json(400, "Invalid JSON")
    ELSE IF \/ ~(body.type = "object" /\ body.hasText)
            \/ body.text.t # "string"
            \/ body.text.s = ""
    THEN Json(400, "Missing 'text' field")
    ELSE Json(202, "accepted")

IsIngest(request) == request.method = "POST" /\ request.pathname = "/api/feedback"

\* C7: every POST /api/feedback is answered 400 Invalid JSON for a body that
\* does not parse, 400 Missing 'text' field for a body that parses (any JSON
\* value) without a non-empty string text, and 202 accepted otherwise.
C7_IngestResponses ==
    [][\A request \in Requests :
         (IsIngest(request) /\ fetch(request)) =>
             response' = ExpectedIngest(request.body)]_vars

\* a step that is a request served by fetch and not a repetition of the
\* latest one: the response changes or an instance is created
Served == response' # response \/ Len(runs') # Len(runs)

\* C8: a request answered 202 appends exactly one instance, which carries the
\* text of that request; a request answered 400 leaves the instances and the
\* table as they were; and instances are created by nothing else.
C8_RejectedNeverReachesPipeline ==
    [][/\ (Served /\ response'.status = 202) =>
            /\ Len(runs') = Len(runs) + 1
            /\ SubSeq(runs', 1, Len(runs)) = runs
            /\ feedback' = feedback
            /\ \E request \in Requests :
                 /\ IsIngest(request) /\ fetch(request)
                 /\ request.body.text.t = "string"
                 /\ request.body.text.s # ""
                 /\ runs'[Len(runs')].text = request.body.text.s
            /\ \A request \in Requests :
                 fetch(request) => runs'[Len(runs')].text = request.body.text.s
       /\ (Served /\ response'.status = 400) => (runs' = runs /\ feedback' = feedback)
       /\ Len(runs') # Len(runs) => response'.status = 202]_vars

\* C8 witness: a request is answered 400 while an instance and a row exist
C8_Witness ==
    /\ response.status = 400
    /\ response.body = "Missing 'text' field"
    /\ Len(runs) = 1
    /\ Len(feedback) = 1

\* C6: in the end-to-end scenario (text "App crashes on login", classifier
\* answer "Bugs", backend answer [{NEGATIVE, 0.9}]) a complete instance has the
\* row {"App crashes on login", Bugs, 0.1}, whose priority is CRITICAL.
C6_EndToEnd ==
    \A i \in DOMAIN runs :
        runs[i].status = "complete" =>
            \E k \in rowsOf(i) :
                /\ feedback[k].raw_text = "App crashes on login"
                /\ feedback[k].category = Bugs
                /\ feedback[k].sentiment = 10
                /\ priority(feedback[k]) = "CRITICAL"

(***************************************************************************)
(* Scheduling.  The workflow runtime keeps running an instance that is not *)
(* terminal: it invokes the callback of the step the instance is at, and   *)
(* after a throw it invokes it again once the backoff delay has passed.    *)
(* Hence weak fairness of the attempts of every instance.                  *)
(***************************************************************************)
\* some attempt of the step instance i is at, with the answers of SpecLive
Attempt(i) ==
    \/ CategorizeOk(i, Str(Bugs))
    \/ CategorizeFail(i)
    \/ SentimentOk(i, Bare(<<Entry("POSITIVE", 80)>>))
    \/ SentimentFail(i)
    \/ PersistOk(i)
    \/ PersistFail(i)

NextLive ==
    Step({Submit("App crashes on login")}, {Str(Bugs)},
         {Bare(<<Entry("POSITIVE", 80)>>)})

SpecLive ==
    Init /\ [][NextLive]_vars /\ \A i \in 1..MaxRuns : WF_vars(Attempt(i))

Terminal(i) == i \in DOMAIN runs /\ runs[i].status \in {"complete", "errored"}

\* C11: under fair scheduling of the step attempts, every instance that has
\* been created is eventually complete or errored.
C11_EveryRunTerminates ==
    \A i \in 1..MaxRuns : [](i \in DOMAIN runs => <>Terminal(i))

\* C11 witness: an instance with category and sentiment cached has ended
\* errored in persist, and another one complete after a retry
C11_Witness ==
    \E i, j \in DOMAIN runs :
        /\ runs[i].status = "errored"
        /\ runs[i].done = {"categorize", "sentiment"}
        /\ runs[j].status = "complete"
        /\ runs[j].attempts > 0

\* an attempt of the step instance i is at fails in this step
Failed(i) == CategorizeFail(i) \/ SentimentFail(i) \/ PersistFail(i)

\* C12: a step of one instance changes no other instance and no row already
\* in the table; a failed attempt, the last one included, changes nothing but
\* the instance it belongs to.
C12_RunsIsolated ==
    [][\A i \in DOMAIN runs :
         runs'[i] # runs[i] =>
             /\ \A j \in DOMAIN runs \ {i} : runs'[j] = runs[j]
             /\ SubSeq(feedback', 1, Len(feedback)) = feedback
             /\ Failed(i) => (feedback' = feedback /\ lastId' = lastId)
             /\ runs'[i].status = "errored" =>
                  (feedback' = feedback /\ lastId' = lastId)]_vars

\* C12 witness: the first instance is errored in categorize while the second
\* one is at persist without a failed attempt
C12_Witness ==
    /\ Len(runs) = 2
    /\ runs[1].status = "errored" /\ runs[1].done = {}
    /\ runs[2].status = "running" /\ runs[2].attempts = 0
    /\ runs[2].done = {"categorize", "sentiment"}

\* C16: an attempt of sentiment is made only after categorize has succeeded
\* and an attempt of persist only after both have; the steps that have
\* succeeded are always a prefix of categorize, sentiment, persist.
C16_StepsInOrder ==
    [][\A i \in DOMAIN runs :
         runs'[i] # runs[i] =>
             /\ Attempted(i, "sentiment") => "categorize" \in runs[i].succeeded
             /\ Attempted(i, "persist") =>
                  {"categorize", "sentiment"} \subseteq runs[i].succeeded
             /\ "sentiment" \in runs'[i].succeeded =>
                  "categorize" \in runs'[i].succeeded
             /\ "persist" \in runs'[i].succeeded =>
                  {"categorize", "sentiment"} \subseteq runs'[i].succeeded]_vars

\* C16 witness: the instance created second completed first and has the
\* smaller row id
C16_Witness ==
    /\ Len(runs) = 2
    /\ runs[1].rows = {2}
    /\ runs[2].rows = {1}

\* instance i has been created and no attempt of a step has been made for it
Pending(i) ==
    /\ runs[i].status = "running"
    /\ runs[i].done = {} /\ runs[i].succeeded = {}
    /\ runs[i].attempts = 0

\* C13: when a request is answered 202 the instance it created exists and is
\* still pending, and no step attempt of an instance, whatever its outcome,
\* changes the response that was given.
C13_AcknowledgesScheduling ==
    [][/\ (Served /\ response'.status = 202) =>
            /\ Len(runs') = Len(runs) + 1
            /\ IF Len(runs') > 0
               THEN LET run == runs'[Len(runs')]
                    IN  /\ run.status = "running"
                        /\ run.done = {} /\ run.succeeded = {}
                        /\ run.attempts = 0
               ELSE FALSE
       /\ \A i \in DOMAIN runs : runs'[i] # runs[i] => response' = response]_vars

\* C13 witness: the latest response is the 202 of the second request, whose
\* instance is still pending, while the instance of the first request, which
\* was answered 202 as well, has ended errored
C13_Witness ==
    /\ response.status = 202
    /\ Len(runs) = 2
    /\ runs[1].status = "errored"
    /\ Pending(2)

\* the dashboard: submissions of one text, rows on both sides of the two cuts
NextDash ==
    Step({Submit("App crashes on login"), Request("GET", "/", NoBody)},
         {Str(Bugs), Str(FeatureRequests)},
         {Bare(<<Entry("POSITIVE", 35)>>), Bare(<<Entry("POSITIVE", 20)>>)})

SpecDash == Init /\ [][NextDash]_vars

\* the row of the table with the given id
record(id) == CHOOSE r \in {feedback[k] : k \in DOMAIN feedback} : r.id = id

Shown == response.status = 200 /\ response.body = "html"

\* C14: on every page, total is the number of rows shown and Critical
\* Incidents is the number of them with sentiment < 0.3, whatever their
\* category and whatever their priority.
C14_Counters ==
    Shown =>
        /\ response.total = Len(response.rows)
        /\ response.urgent =
             Cardinality({k \in DOMAIN response.rows :
                            record(response.rows[k].id).sentiment < 30})
        /\ \A k \in DOMAIN response.rows :
             LET r == record(response.rows[k].id)
             IN  /\ (r.category \in {Bugs, Billing} /\ r.sentiment >= 30 /\ r.sentiment < 40) =>
                        response.rows[k].priority = "CRITICAL"
                 /\ (r.category = FeatureRequests /\ r.sentiment < 30) =>
                        response.rows[k].priority # "CRITICAL"

\* C14 witness: a page with a Bugs row at 0.35, shown CRITICAL and not
\* counted, and a Feature Requests row at 0.20, counted and shown MEDIUM
C14_Witness ==
    /\ Shown
    /\ response.total = 2 /\ response.urgent = 1
    /\ \E k, l \in DOMAIN response.rows :
         /\ record(response.rows[k].id).category = Bugs
         /\ record(response.rows[k].id).sentiment = 35
         /\ response.rows[k].priority = "CRITICAL"
         /\ record(response.rows[l].id).category = FeatureRequests
         /\ record(response.rows[l].id).sentiment = 20
         /\ response.rows[l].priority = "MEDIUM"

\* C15: the priority a page showed for a row is the priority computed for
\* that row in any later state, and two rows of a page with the same category
\* and sentiment have the same priority.
C15_TriageDeterministic ==
    Shown =>
        /\ \A k \in DOMAIN response.rows :
             response.rows[k].priority = priority(record(response.rows[k].id))
        /\ \A k, l \in DOMAIN response.rows :
             LET a == record(response.rows[k].id)
                 b == record(response.rows[l].id)
             IN  (a.category = b.category /\ a.sentiment = b.sentiment) =>
                     response.rows[k].priority = response.rows[l].priority

\* C15 witness: a page showed the first row, and a second row with the same
\* category and sentiment has been inserted since
C15_Witness ==
    /\ Shown
    /\ Len(response.rows) = 1
    /\ Len(feedback) = 2
    /\ feedback[1].category = feedback[2].category
    /\ feedback[1].sentiment = feedback[2].sentiment

\* C18: every step keeps the rows of the table as they are and appends at
\* most rows with an id above every id in the table, and changes no instance
\* that is complete or errored.
C18_AppendOnly ==
    [][/\ Len(feedback') >= Len(feedback)
       /\ SubSeq(feedback', 1, Len(feedback)) = feedback
       /\ \A k \in (Len(feedback) + 1)..Len(feedback') :
            \A j \in 1..(k - 1) : feedback'[k].id > feedback'[j].id
       /\ \A i \in DOMAIN runs :
            runs[i].status \in {"complete", "errored"} => runs'[i] = runs[i]]_vars

\* C18 witness: two rows with ids 1 and 2, both instances terminal, and a
\* page served afterwards
C18_Witness ==
    /\ Len(feedback) = 2
    /\ feedback[1].id = 1 /\ feedback[2].id = 2
    /\ \A i \in DOMAIN runs : runs[i].status = "complete"
    /\ Shown /\ response.total = 2

\* C19: serving GET / leaves the instances, the table and its id counter as
\* they were, and a row never has a field other than id, raw_text, category
\* and sentiment.
C19_DashboardReadOnly ==
    [][/\ (fetch(Request("GET", "/", NoBody)) \/ (response' # response /\ response'.status = 200)) =>
            (runs' = runs /\ feedback' = feedback /\ lastId' = lastId)
       /\ \A k \in DOMAIN feedback' :
            DOMAIN feedback'[k] = {"id", "raw_text", "category", "sentiment"}]_vars

\* C19 witness: a page with a row has been served while an instance is still
\* running
C19_Witness ==
    /\ Shown /\ response.total = 1
    /\ Len(feedback) = 1
    /\ \E i \in DOMAIN runs : runs[i].status = "running" /\ runs[i].done # {}

\* instances of different texts, categories and sentiments, with every step
\* free to fail and be retried
NextRecords ==
    Step({Submit(t) : t \in Texts},
         {Str(Bugs), Str(FeatureRequests)},
         {Bare(<<Entry("POSITIVE", 80)>>), Bare(<<>>)})

SpecRecords == Init /\ [][NextRecords]_vars

\* C17: the row of a complete instance carries the text submitted for that
\* instance and the category and sentiment its own "categorize" and
\* "sentiment" steps resolved with, never a value of another instance.
C17_RecordIsOwnResults ==
    \A i \in DOMAIN runs :
        runs[i].status = "complete" =>
            /\ rowsOf(i) # {}
            /\ \A k \in rowsOf(i) :
                 /\ feedback[k].raw_text = runs[i].text
                 /\ feedback[k].category = runs[i].category
                 /\ feedback[k].sentiment = runs[i].sentiment

\* C17 witness: two complete instances of different text, category and
\* sentiment, the first persisted after the second and after a retry
C17_Witness ==
    /\ DOMAIN runs = {1, 2}
    /\ runs[1].status = "complete" /\ runs[2].status = "complete"
    /\ runs[1].text # runs[2].text
    /\ runs[1].category # runs[2].category
    /\ runs[1].sentiment # runs[2].sentiment
    /\ runs[1].attempts > 0
    /\ rowsOf(1) = {2} /\ rowsOf(2) = {1}

====
